---------------------------- MODULE Spec2Model ----------------------------
(***************************************************************************)
(* A model of hw2/main.py: the Monte Carlo simulation of a restaurant's    *)
(* monthly profit (Meals, Labor, Market, Partnership, Restaurant.simulate) *)
(* and the module-level generator `rng` and flag `debug` they share.       *)
(*                                                                         *)
(* Arithmetic is exact.  Money is held in cents and every configured       *)
(* amount is a whole number of dimes, probabilities are held in percent    *)
(* and the partnership share in tenths, so that every product and every    *)
(* blend the code computes is an integer here.  The floating-point         *)
(* rounding of the Python build is not modelled.                           *)
(*                                                                         *)
(* The generator is a small linear congruential generator standing for     *)
(* PCG64: a state, a step function and an output function.  One variate    *)
(* costs one step.                                                         *)
(***************************************************************************)
EXTENDS Integers, Sequences, FiniteSets

VARIABLES
    rng,            \* state of the module-level generator (main.py:5)
    debug,          \* the module-level flag (main.py:8)
    console,        \* month blocks printed by the running/last simulate call
    pc,             \* where the program is
    marketArgs,     \* <<>> or <<arguments of the Market(...) call made>>
    market,         \* <<>> or <<the Market object constructed>>
    error,          \* "none" or the exception that ended the program
    restaurant,     \* <<>> or <<the Restaurant object>>
    call,           \* arguments of the running/last simulate call
    rng0,           \* generator state when that call was entered
    drawLog,        \* the variates that call has drawn, by distribution
    meals_sold,     \* locals of simulate (main.py:278-281)
    labor_costs,
    market_prices,
    profit,
    first           \* <<>> or <<the first call, entered on a freshly seeded
                    \* generator with debug off, that returned>>

vars == <<rng, debug, console, pc, marketArgs, market, error, restaurant, call,
          rng0, drawLog, meals_sold, labor_costs, market_prices, profit, first>>

---------------------------------------------------------------------------
(* Bounds of the model.                                                    *)

MaxMonths == 2

\* the seeds a generator is seeded with
Seeds == {0, 5}

---------------------------------------------------------------------------
(* The generator: rng = np.random.Generator(np.random.PCG64()).            *)

RngStep(s) == (5 * s + 3) % 8

\* the variate read off a generator state: its two high bits, 0..3
RngOutput(s) == s \div 2

RECURSIVE Advance(_, _)
Advance(s, n) == IF n = 0 THEN s ELSE Advance(RngStep(s), n - 1)

\* the n variates drawn from state s, in order
Variates(s, n) == [k \in 1..n |-> RngOutput(Advance(s, k))]

\* a raw variate as a uniform number in [0,1), in percent
UniformPercent(r) == 25 * r

\* a raw variate as a standard normal deviate, in halves: -1.5 .. 1.5
NormalHalves(r) == 2 * r - 3

\* ndarray.round(0) of n/2: round half to even
RoundHalves(n) ==
    LET q == n \div 2
    IN  IF n % 2 = 0 THEN q ELSE IF q % 2 = 0 THEN q ELSE q + 1

RECURSIVE SumTo(_, _)
SumTo(p, j) == IF j = 0 THEN 0 ELSE SumTo(p, j - 1) + p[j]

Sum(p) == SumTo(p, Len(p))

---------------------------------------------------------------------------
(* Meals, Labor, Market: the three samplers.                               *)

\* Meals.roll_meals_sold: rng.normal(mean, std, size).round(0)
MealsValue(m, r) == RoundHalves(2 * m.mean + m.std * NormalHalves(r))

\* Labor.roll_cost: rng.uniform(min, max, size)
LaborValue(l, r) == l.min + ((l.max - l.min) * UniformPercent(r)) \div 100

\* variant of MarketAccepts: the upper bound on a probability is not tested
MarketAcceptsNoUpper(prices, probs) ==
    /\ Len(prices) = Len(probs)
    /\ \A k \in 1..Len(probs) : ~(probs[k] < 0)

\* Market.__init__: the two checks that guard construction
MarketAccepts(prices, probs) ==
    /\ Len(prices) = Len(probs)
    /\ \A k \in 1..Len(probs) : ~(probs[k] < 0 \/ probs[k] > 100)

\* rng.choice(a, size, p=p) raises ValueError unless p sums to 1
ChoiceAccepts(m) == Sum(m.market_probability) = 100

\* Market.roll_market: rng.choice picks the price whose cumulative-probability
\* interval holds the uniform variate
MarketValue(m, r) ==
    LET p == m.market_probability
        idx == Cardinality({j \in 1..Len(p) : SumTo(p, j) <= UniformPercent(r)})
    IN  m.meal_price[idx + 1]

---------------------------------------------------------------------------
(* The objects main() builds (main.py:310-321), and a second, small        *)
(* restaurant whose profits fall on and around its partnership's bounds.   *)

MainMeals == [mean |-> 3000, std |-> 1000]
MainLabor == [min |-> 504000, max |-> 686000]
\* variant of MainPrices: the second price is 17.50
MainPricesSlip == <<2000, 1750, 1650, 1500>>

MainPrices == <<2000, 1850, 1650, 1500>>
MainProbabilities == <<25, 35, 30, 10>>
MainPartnership == [min |-> 350000, threshold |-> 900000, share |-> 9]

SmallMeals == [mean |-> 3, std |-> 1]
SmallLabor == [min |-> 0, max |-> 400]
SmallPrices == <<300, 200>>

Prefixes(s) == {SubSeq(s, 1, n) : n \in 0..Len(s)}

RECURSIVE SeqsUpTo(_, _)
SeqsUpTo(S, n) ==
    IF n = 0 THEN {<<>>}
    ELSE LET shorter == SeqsUpTo(S, n - 1)
         IN  shorter \cup {Append(s, x) : s \in shorter, x \in S}

\* the Market(...) calls tried: main()'s, and every pairing of a price list
\* with a probability list, in range or not, of equal length or not
MarketCalls ==
    {<<MainPrices, MainProbabilities>>} \cup
    (Prefixes(SmallPrices) \X SeqsUpTo({-50, 0, 50, 100, 150}, Len(SmallPrices)))

\* the Partnership(...) objects tried; nothing orders min and threshold or
\* bounds share (main.py:196-198)
Partnerships(large) ==
    IF large
    THEN {MainPartnership, [min |-> 900000, threshold |-> 350000, share |-> 9]}
    ELSE {[min |-> 200, threshold |-> 500, share |-> 5],
          [min |-> 200, threshold |-> 500, share |-> 0],
          [min |-> 200, threshold |-> 300, share |-> 15],
          [min |-> 200, threshold |-> 500, share |-> -5],
          [min |-> 500, threshold |-> 200, share |-> 5],
          [min |-> 300, threshold |-> 300, share |-> 10]}

\* Restaurant.__init__: stores its six arguments
Restaurant(labor, mkt, meals, cost_per_meal, non_labor_cost_per_month, partnership) ==
    [labor |-> labor, market |-> mkt, meals |-> meals,
     cost_per_meal |-> cost_per_meal,
     non_labor_cost_per_month |-> non_labor_cost_per_month,
     partnership |-> partnership]

\* the restaurant main() builds: cost_per_meal = 11, non_labor_cost_per_month
\* = 3995, around the market and the partnership given
MainRestaurant(mkt, partnership) ==
    Restaurant(MainLabor, mkt, MainMeals, 1100, 399500, partnership)

\* the small restaurant: one dollar a meal, no fixed cost
SmallRestaurant(mkt, partnership) ==
    Restaurant(SmallLabor, mkt, SmallMeals, 100, 0, partnership)

---------------------------------------------------------------------------
(* Restaurant.simulate, month by month.                                    *)

\* variant of RawProfit: the labor cost is added
RawProfitLaborAdded(r, meals, price, labor) ==
    meals * (price - r.cost_per_meal) - r.non_labor_cost_per_month + labor

\* main.py:283-287
RawProfit(r, meals, price, labor) ==
    meals * (price - r.cost_per_meal) - r.non_labor_cost_per_month - labor

\* variant of Blend: a hard cap at the threshold
BlendHardCap(p, rev) == p.threshold

\* main.py:292, share in tenths
Blend(p, rev) == (p.share * p.threshold + (10 - p.share) * rev) \div 10

\* variant of Adjust: the floor branch is missing
AdjustNoFloor(p, rev) ==
    IF rev > p.threshold THEN Blend(p, rev) ELSE rev

\* variant of Adjust: min is tested as if it were a maximum
AdjustMinAsMax(p, rev) ==
    IF rev > p.min THEN p.min
    ELSE IF rev > p.threshold THEN Blend(p, rev)
    ELSE rev

\* main.py:289-292
Adjust(p, rev) ==
    IF rev < p.min THEN p.min
    ELSE IF rev > p.threshold THEN Blend(p, rev)
    ELSE rev

\* main.py:281
FreshProfit == <<>>

\* variant of LoopDone: range(months - 1)
LoopDoneEarly == Len(profit) >= call.months - 1

\* main.py:282, range(months) is exhausted
LoopDone == Len(profit) = call.months

Quiet == pc = "idle"

Init ==
    /\ rng \in Seeds
    /\ debug = FALSE
    /\ console = 0
    /\ pc = "main"
    /\ marketArgs = <<>>
    /\ market = <<>>
    /\ error = "none"
    /\ restaurant = <<>>
    /\ call = [months |-> 0, partnership |-> FALSE]
    /\ rng0 = rng
    /\ drawLog = <<>>
    /\ meals_sold = <<>>
    /\ labor_costs = <<>>
    /\ market_prices = <<>>
    /\ profit = <<>>
    /\ first = <<>>

\* variant of MarketInit: the market is tried on one draw before its
\* arguments are checked
MarketInitDrawsFirst(prices, probs) ==
    /\ pc = "main"
    /\ marketArgs' = <<[meal_price |-> prices, market_probability |-> probs]>>
    /\ rng' = RngStep(rng)
    /\ IF MarketAccepts(prices, probs)
       THEN /\ market' = <<[meal_price |-> prices, market_probability |-> probs]>>
            /\ pc' = "market"
            /\ error' = error
       ELSE /\ market' = market
            /\ pc' = "aborted"
            /\ error' = "ValueError"
    /\ UNCHANGED <<debug, console, restaurant, call, rng0, drawLog,
                   meals_sold, labor_costs, market_prices, profit, first>>

\* Market(meal_prices, market_probability)
MarketInit(prices, probs) ==
    /\ pc = "main"
    /\ marketArgs' = <<[meal_price |-> prices, market_probability |-> probs]>>
    /\ IF MarketAccepts(prices, probs)
       THEN /\ market' = <<[meal_price |-> prices, market_probability |-> probs]>>
            /\ pc' = "market"
            /\ error' = error
       ELSE /\ market' = market
            /\ pc' = "aborted"
            /\ error' = "ValueError"
    /\ UNCHANGED <<rng, debug, console, restaurant, call, rng0, drawLog,
                   meals_sold, labor_costs, market_prices, profit, first>>

\* Restaurant(labor, market, meals, cost_per_meal, non_labor_cost_per_month,
\* partnership), as main() calls it and for the small restaurant
RestaurantInit(large, partnership) ==
    /\ pc = "market"
    /\ large <=> market[1].meal_price = MainPrices
    /\ restaurant' = <<IF large THEN MainRestaurant(market[1], partnership)
                                 ELSE SmallRestaurant(market[1], partnership)>>
    /\ pc' = "idle"
    /\ UNCHANGED <<rng, debug, console, marketArgs, market, error, call, rng0,
                   drawLog, meals_sold, labor_costs, market_prices, profit, first>>

\* global debug; debug = ... (main.py:322-323)
SetDebug(b) ==
    /\ Quiet
    /\ debug # b
    /\ debug' = b
    /\ UNCHANGED <<rng, console, pc, marketArgs, market, error, restaurant, call,
                   rng0, drawLog, meals_sold, labor_costs, market_prices, profit,
                   first>>

\* the generator replaced by a freshly seeded one
Seed(n) ==
    /\ Quiet
    /\ rng # n
    /\ rng' = n
    /\ UNCHANGED <<debug, console, pc, marketArgs, market, error, restaurant, call,
                   rng0, drawLog, meals_sold, labor_costs, market_prices, profit,
                   first>>

\* restaurant.simulate(months, partnership=partnership) is entered: a new
\* frame, whose locals hold nothing yet
Call(months, partnership) ==
    /\ Quiet
    /\ call' = [months |-> months, partnership |-> partnership]
    /\ rng0' = rng
    /\ drawLog' = <<>>
    /\ console' = 0
    /\ meals_sold' = <<>>
    /\ labor_costs' = <<>>
    /\ market_prices' = <<>>
    /\ profit' = <<>>
    /\ pc' = "meals"
    /\ UNCHANGED <<rng, debug, marketArgs, market, error, restaurant, first>>

Drawn(kind) == [k \in 1..call.months |-> kind]

\* variant of RollMeals: in debug mode one more variate is drawn first
RollMealsDebugDraw ==
    /\ pc = "meals"
    /\ LET from == IF debug THEN RngStep(rng) ELSE rng
       IN  /\ meals_sold' = [k \in 1..call.months |->
                               MealsValue(restaurant[1].meals,
                                          Variates(from, call.months)[k])]
           /\ rng' = Advance(from, call.months)
    /\ drawLog' = drawLog \o Drawn("normal")
    /\ pc' = "labor"
    /\ UNCHANGED <<debug, console, marketArgs, market, error, restaurant, call,
                   rng0, labor_costs, market_prices, profit, first>>

\* main.py:278
RollMeals ==
    /\ pc = "meals"
    /\ meals_sold' = [k \in 1..call.months |->
                        MealsValue(restaurant[1].meals, Variates(rng, call.months)[k])]
    /\ rng' = Advance(rng, call.months)
    /\ drawLog' = drawLog \o Drawn("normal")
    /\ pc' = "labor"
    /\ UNCHANGED <<debug, console, marketArgs, market, error, restaurant, call,
                   rng0, labor_costs, market_prices, profit, first>>

\* variant of RollLabor: drawn from a copy of the generator, which is left
\* where it was
RollLaborFromCopy ==
    /\ pc = "labor"
    /\ labor_costs' = [k \in 1..call.months |->
                         LaborValue(restaurant[1].labor, Variates(rng, call.months)[k])]
    /\ rng' = rng
    /\ drawLog' = drawLog \o Drawn("uniform")
    /\ pc' = "prices"
    /\ UNCHANGED <<debug, console, marketArgs, market, error, restaurant, call,
                   rng0, meals_sold, market_prices, profit, first>>

\* main.py:279
RollLabor ==
    /\ pc = "labor"
    /\ labor_costs' = [k \in 1..call.months |->
                         LaborValue(restaurant[1].labor, Variates(rng, call.months)[k])]
    /\ rng' = Advance(rng, call.months)
    /\ drawLog' = drawLog \o Drawn("uniform")
    /\ pc' = "prices"
    /\ UNCHANGED <<debug, console, marketArgs, market, error, restaurant, call,
                   rng0, meals_sold, market_prices, profit, first>>

\* main.py:280-281; rng.choice raises before it draws when p does not sum to 1
RollMarket ==
    /\ pc = "prices"
    /\ IF ChoiceAccepts(restaurant[1].market)
       THEN /\ market_prices' = [k \in 1..call.months |->
                                   MarketValue(restaurant[1].market,
                                               Variates(rng, call.months)[k])]
            /\ rng' = Advance(rng, call.months)
            /\ drawLog' = drawLog \o Drawn("choice")
            /\ profit' = FreshProfit
            /\ pc' = "loop"
            /\ error' = error
       ELSE /\ pc' = "raised"
            /\ error' = "ValueError"
            /\ UNCHANGED <<market_prices, rng, drawLog, profit>>
    /\ UNCHANGED <<debug, console, marketArgs, market, restaurant, call, rng0,
                   meals_sold, labor_costs, first>>

\* main.py:282-299, one iteration
Month ==
    /\ pc = "loop"
    /\ ~LoopDone
    /\ LET i == Len(profit) + 1
           rev == RawProfit(restaurant[1], meals_sold[i], market_prices[i],
                            labor_costs[i])
       IN  profit' = Append(profit, IF call.partnership
                                    THEN Adjust(restaurant[1].partnership, rev)
                                    ELSE rev)
    /\ console' = IF debug THEN console + 1 ELSE console
    /\ UNCHANGED <<rng, debug, pc, marketArgs, market, error, restaurant, call,
                   rng0, drawLog, meals_sold, labor_costs, market_prices, first>>

\* main.py:300
Return ==
    /\ pc = "loop"
    /\ LoopDone
    /\ pc' = "returned"
    /\ first' = IF first = <<>> /\ ~debug /\ rng0 \in Seeds
                THEN <<[call |-> call, rng0 |-> rng0, profit |-> profit]>>
                ELSE first
    /\ UNCHANGED <<rng, debug, console, marketArgs, market, error, restaurant,
                   call, rng0, drawLog, meals_sold, labor_costs, market_prices,
                   profit>>

\* the caller has used the series returned (main.py:326-327); the frame is gone
TakeResult ==
    /\ pc = "returned"
    /\ pc' = "idle"
    /\ call' = [months |-> 0, partnership |-> FALSE]
    /\ rng0' = rng
    /\ console' = 0
    /\ drawLog' = <<>>
    /\ meals_sold' = <<>>
    /\ labor_costs' = <<>>
    /\ market_prices' = <<>>
    /\ profit' = <<>>
    /\ UNCHANGED <<rng, debug, marketArgs, market, error, restaurant, first>>

Next ==
    \/ \E c \in MarketCalls : MarketInit(c[1], c[2])
    \/ \E large \in BOOLEAN : \E p \in Partnerships(large) : RestaurantInit(large, p)
    \/ \E b \in BOOLEAN : SetDebug(b)
    \/ \E n \in Seeds : Seed(n)
    \/ \E months \in 0..MaxMonths : \E partnership \in BOOLEAN : Call(months, partnership)
    \/ RollMeals
    \/ RollLabor
    \/ RollMarket
    \/ Month
    \/ Return
    \/ TakeResult

Spec == Init /\ [][Next]_vars

---------------------------------------------------------------------------
(* Properties.                                                             *)

\* the partnership of the restaurant simulated
Policy == restaurant[1].partnership

\* the months the running/last call has computed
Computed == 1..Len(profit)

\* the raw profit of computed month i, from the three samples at index i
RawAt(i) ==
    meals_sold[i] * (market_prices[i] - restaurant[1].cost_per_meal)
    - restaurant[1].non_labor_cost_per_month - labor_costs[i]

\* C1 as stated: under the partnership no computed profit is below
\* Partnership.min, whatever min, threshold and share are.
C1_FloorAnyPolicy ==
    call.partnership => \A i \in Computed : profit[i] >= Policy.min

\* C1, amended: under the partnership no computed profit is below
\* Partnership.min, provided min <= threshold and share <= 1.
C1_Floor ==
    (call.partnership /\ Len(profit) > 0
        /\ Policy.min <= Policy.threshold /\ Policy.share <= 10)
    => \A i \in Computed : profit[i] >= Policy.min

\* a partnership with min <= threshold and share <= 1 has clamped one month
\* to its floor and blended another above its threshold
C1_Witness ==
    /\ call.partnership /\ Len(profit) > 0
    /\ Policy.min <= Policy.threshold /\ Policy.share <= 10
    /\ \E i \in Computed : RawAt(i) < Policy.min /\ profit[i] = Policy.min
    /\ \E j \in Computed : RawAt(j) > Policy.threshold

\* C2 as stated: a raw profit above the threshold always becomes
\* share*threshold + (1-share)*raw, which is below raw when share > 0.
C2_BlendAboveThreshold ==
    call.partnership =>
        \A i \in Computed :
            RawAt(i) > Policy.threshold =>
                /\ 10 * profit[i] = Policy.share * Policy.threshold
                                    + (10 - Policy.share) * RawAt(i)
                /\ Policy.share > 0 => profit[i] < RawAt(i)

\* C2, amended: a raw profit above the threshold and not below min becomes
\* share*threshold + (1-share)*raw, which is below raw when share > 0.
C2_Blend ==
    call.partnership =>
        \A i \in Computed :
            (RawAt(i) > Policy.threshold /\ RawAt(i) >= Policy.min) =>
                /\ 10 * profit[i] = Policy.share * Policy.threshold
                                    + (10 - Policy.share) * RawAt(i)
                /\ Policy.share > 0 => profit[i] < RawAt(i)

\* a month above the threshold, not below min, has been blended with a
\* share strictly between 0 and 1
C2_Witness ==
    /\ call.partnership
    /\ \E i \in Computed :
          /\ RawAt(i) > Policy.threshold /\ RawAt(i) >= Policy.min
          /\ Policy.share > 0 /\ Policy.share < 10
          /\ profit[i] < RawAt(i) /\ profit[i] > Policy.threshold

\* C3 as stated: every policy passes min and threshold through unchanged.
C3_BoundariesAnyPolicy ==
    restaurant # <<>> =>
        /\ Adjust(Policy, Policy.min) = Policy.min
        /\ Adjust(Policy, Policy.threshold) = Policy.threshold

\* C3, amended: a policy with min <= threshold passes min and threshold
\* through unchanged, as a function and in every month simulated under it.
C3_Boundaries ==
    (restaurant # <<>> /\ Policy.min <= Policy.threshold) =>
        /\ Adjust(Policy, Policy.min) = Policy.min
        /\ Adjust(Policy, Policy.threshold) = Policy.threshold
        /\ call.partnership =>
              \A i \in Computed :
                  RawAt(i) \in {Policy.min, Policy.threshold} => profit[i] = RawAt(i)

\* under a policy with min < threshold one month's raw profit fell exactly
\* on min and another's exactly on the threshold
C3_Witness ==
    /\ call.partnership /\ Len(profit) > 0
    /\ Policy.min < Policy.threshold
    /\ \E i \in Computed : RawAt(i) = Policy.min /\ profit[i] = Policy.min
    /\ \E j \in Computed : RawAt(j) = Policy.threshold /\ profit[j] = Policy.threshold

C5_SeriesLength ==
    /\ pc \in {"meals", "labor", "prices"} => profit = <<>>
    /\ pc = "loop" => Len(profit) <= call.months
    /\ pc = "returned" =>
          /\ Len(profit) = call.months
          /\ call.months = 0 => profit = <<>>

\* after a call that returned a series with entries, a call with months = 0
\* has returned the empty series
C5_Witness ==
    /\ pc = "returned"
    /\ call.months = 0 /\ profit = <<>>
    /\ first # <<>> /\ Len(first[1].profit) = MaxMonths

\* C6: two calls on the same restaurant with the same months and the same
\* flag, entered with the generator in the same state, return the same series,
\* whatever debug was during each.
C6_Deterministic ==
    (pc = "returned" /\ first # <<>>
        /\ first[1].call = call /\ first[1].rng0 = rng0)
    => profit = first[1].profit

\* the first call ran with debug off; a later call with the same arguments,
\* from the same generator state, ran with debug on and printed its months
C6_Witness ==
    /\ pc = "returned" /\ first # <<>>
    /\ first[1].call = call /\ first[1].rng0 = rng0
    /\ debug
    /\ call.months = MaxMonths /\ console = call.months
    /\ profit = first[1].profit

\* the expected market price, in cents times percent
ExpectedMarket(m) ==
    LET weighted == [k \in 1..Len(m.meal_price) |->
                       m.meal_price[k] * m.market_probability[k]]
    IN  Sum(weighted)

\* the expected labor cost, in cents: the midpoint of [min, max)
ExpectedLabor(l) == (l.min + l.max) \div 2

\* E[meals]*(E[market] - cost_per_meal) - non_labor_cost - E[labor], in cents
\* times percent; the rounded normal is symmetric about its whole mean
ExpectedProfit(r) ==
    r.meals.mean * (ExpectedMarket(r.market) - 100 * r.cost_per_meal)
    - 100 * (r.non_labor_cost_per_month + ExpectedLabor(r.labor))

\* the restaurant simulated is the one main() builds
IsMainRestaurant ==
    /\ restaurant # <<>>
    /\ restaurant[1] =
         MainRestaurant([meal_price |-> MainPrices,
                         market_probability |-> MainProbabilities], Policy)

\* C7 as stated: for main()'s restaurant E[market] = 17.625, E[labor] = 5950
\* and the expected monthly profit is 9930.
C7_Expected9930 ==
    IsMainRestaurant =>
        /\ ExpectedMarket(restaurant[1].market) = 176250
        /\ ExpectedLabor(restaurant[1].labor) = 595000
        /\ ExpectedProfit(restaurant[1]) = 99300000

\* C7, amended: for main()'s restaurant E[market] = 17.925, E[labor] = 5950
\* and the expected monthly profit is 10830.
C7_Expected ==
    IsMainRestaurant =>
        /\ ExpectedMarket(restaurant[1].market) = 179250
        /\ ExpectedLabor(restaurant[1].labor) = 595000
        /\ ExpectedProfit(restaurant[1]) = 108300000

\* main()'s restaurant has been simulated without the partnership
C7_Witness ==
    /\ IsMainRestaurant
    /\ pc = "returned" /\ ~call.partnership /\ call.months = MaxMonths

\* C8: each computed month's profit comes from the three samples at its own
\* index; without the partnership it is the raw profit, and with it the raw
\* profit whenever that lies within [min, threshold].
C8_RawProfit ==
    \A i \in Computed :
        LET raw == meals_sold[i] * (market_prices[i] - restaurant[1].cost_per_meal)
                   - restaurant[1].non_labor_cost_per_month - labor_costs[i]
        IN  /\ ~call.partnership => profit[i] = raw
            /\ (call.partnership /\ Policy.min <= raw /\ raw <= Policy.threshold)
                  => profit[i] = raw

\* under the partnership a month strictly between min and threshold passed
\* through, beside a month that did not
C8_Witness ==
    /\ call.partnership /\ pc = "returned"
    /\ \E i \in Computed :
          Policy.min < RawAt(i) /\ RawAt(i) < Policy.threshold /\ profit[i] = RawAt(i)
    /\ \E j \in Computed : profit[j] # RawAt(j)

\* the kinds of the 3n variates of one call, in batch order
BatchOrder(n) ==
    [k \in 1..(3 * n) |->
        IF k <= n THEN "normal" ELSE IF k <= 2 * n THEN "uniform" ELSE "choice"]

\* C9: a call draws `months` meal variates, then `months` labor variates, then
\* `months` market variates from the one generator, all before the first
\* profit; it starts from the state the generator is in and, once it has
\* returned, leaves the generator 3*months variates on for the next call.
C9_DrawOrder ==
    LET n == call.months
        stream == Variates(rng0, 3 * n)
    IN  /\ pc = "meals" => rng = rng0 /\ drawLog = <<>>
        /\ pc = "labor" => rng = Advance(rng0, n) /\ drawLog = SubSeq(BatchOrder(n), 1, n)
        /\ pc = "prices" =>
              rng = Advance(rng0, 2 * n) /\ drawLog = SubSeq(BatchOrder(n), 1, 2 * n)
        /\ pc = "loop" => rng = Advance(rng0, 3 * n)
        /\ pc = "returned" => rng = Advance(rng0, 3 * n)
        /\ Len(profit) > 0 => Len(drawLog) = 3 * n
        /\ pc \in {"loop", "returned"} =>
              /\ drawLog = BatchOrder(n)
              /\ \A k \in 1..n :
                    /\ meals_sold[k] = MealsValue(restaurant[1].meals, stream[k])
                    /\ labor_costs[k] = LaborValue(restaurant[1].labor, stream[n + k])
                    /\ market_prices[k] = MarketValue(restaurant[1].market, stream[2 * n + k])

\* a second call has returned, entered where the first call left the
\* generator, and has left it 3*months variates further on
C9_Witness ==
    /\ pc = "returned" /\ first # <<>>
    /\ call.months = MaxMonths
    /\ first[1].call.months > 0
    /\ rng0 = Advance(first[1].rng0, 3 * first[1].call.months)
    /\ rng0 # first[1].rng0
    /\ rng = Advance(rng0, 3 * call.months)
    /\ Len(drawLog) = 3 * call.months

\* C10: a Market construction that fails has drawn nothing and left the
\* generator as it was, and no restaurant and no simulate call exists after
\* it; every simulate call runs on a market that passed construction.
C10_ErrorBeforeSampling ==
    /\ pc = "aborted" =>
          /\ rng = rng0 /\ drawLog = <<>>
          /\ market = <<>> /\ restaurant = <<>> /\ first = <<>>
          /\ error = "ValueError"
    /\ restaurant # <<>> =>
          /\ <<restaurant[1].market>> = marketArgs
          /\ Len(restaurant[1].market.meal_price)
               = Len(restaurant[1].market.market_probability)
          /\ \A k \in 1..Len(restaurant[1].market.market_probability) :
                /\ 0 <= restaurant[1].market.market_probability[k]
                /\ restaurant[1].market.market_probability[k] <= 100

\* a Market construction has failed on a probability of 1.5
C10_Witness ==
    /\ pc = "aborted"
    /\ Len(marketArgs[1].meal_price) = Len(marketArgs[1].market_probability)
    /\ \E k \in 1..Len(marketArgs[1].market_probability) :
          marketArgs[1].market_probability[k] = 150

====
